---- MODULE Spec2Model ----
(***************************************************************************)
(* Model of src/app.py: the /get_weather batch pipeline, the geocoding     *)
(* resolver with its two fallback rewrites, the weather enricher, the      *)
(* unit converter, the comfort index and the record store.                 *)
(*                                                                         *)
(* Python strings that the code splits, trims, upper-cases or rebuilds are *)
(* sequences of one-character strings.  Every other Python value is a      *)
(* tagged record (None, a number, a string, a value of the wrong type), so *)
(* that "missing" and "malformed" are distinct values.                     *)
(***************************************************************************)
EXTENDS Integers, Sequences, FiniteSets, TLC

(***************************************************************************)
(* Bounds of the model.                                                    *)
(***************************************************************************)
MaxBatch == 2
MaxLen == 4
MaxRequests == 2
MaxExcess == 2

(***************************************************************************)
(* Python values.                                                          *)
(***************************************************************************)
None == [tag |-> "none"]
Num(n) == [tag |-> "num", v |-> n]
Str(s) == [tag |-> "str", v |-> s]
\* a JSON value of a type the code does not expect at that place
Malformed == [tag |-> "malformed"]
\* a key that is not in the dict
Absent == [tag |-> "absent"]

\* dict.get(key): a key that is absent reads as None
Get(v) == IF v = Absent THEN None ELSE v

\* Python truthiness of a scalar: None, "" and 0 are falsy
Truthy(v) ==
    CASE v.tag = "none" -> FALSE
      [] v.tag = "absent" -> FALSE
      [] v.tag = "str" -> v.v # ""
      [] v.tag = "num" -> v.v # 0
      [] OTHER -> TRUE

(***************************************************************************)
(* str methods used by the resolver and the batch loop.                    *)
(***************************************************************************)
Whitespace == {" ", "\t"}

LowerCase == <<"a","b","c","d","e","f","g","h","i","j","k","l","m",
               "n","o","p","q","r","s","t","u","v","w","x","y","z">>
UpperCase == <<"A","B","C","D","E","F","G","H","I","J","K","L","M",
               "N","O","P","Q","R","S","T","U","V","W","X","Y","Z">>

\* str.upper() on one character
UpperChar(c) ==
    IF \E i \in 1..Len(LowerCase) : LowerCase[i] = c
    THEN UpperCase[CHOOSE i \in 1..Len(LowerCase) : LowerCase[i] = c]
    ELSE c

\* str.upper()
Upper(s) == [i \in 1..Len(s) |-> UpperChar(s[i])]

\* str.replace(".", "")
RECURSIVE RemovePeriods(_)
RemovePeriods(s) ==
    IF s = <<>> THEN <<>>
    ELSE IF Head(s) = "." THEN RemovePeriods(Tail(s))
    ELSE <<Head(s)>> \o RemovePeriods(Tail(s))

RECURSIVE LStrip(_)
LStrip(s) ==
    IF s # <<>> /\ Head(s) \in Whitespace THEN LStrip(Tail(s)) ELSE s

RECURSIVE RStrip(_)
RStrip(s) ==
    IF s # <<>> /\ s[Len(s)] \in Whitespace
    THEN RStrip(SubSeq(s, 1, Len(s) - 1)) ELSE s

\* str.strip()
Strip(s) == RStrip(LStrip(s))

\* str.split(","): always at least one part
RECURSIVE SplitComma(_)
SplitComma(s) ==
    IF \A i \in 1..Len(s) : s[i] # ","
    THEN <<s>>
    ELSE LET k == CHOOSE i \in 1..Len(s) :
                     s[i] = "," /\ \A j \in 1..(i - 1) : s[j] # ","
         IN  <<SubSeq(s, 1, k - 1)>> \o SplitComma(SubSeq(s, k + 1, Len(s)))

\* ",".join(parts)
RECURSIVE JoinComma(_)
JoinComma(parts) ==
    IF parts = <<>> THEN <<>>
    ELSE IF Len(parts) = 1 THEN parts[1]
    ELSE parts[1] \o <<",">> \o JoinComma(Tail(parts))

(***************************************************************************)
(* Lookup tables of the resolver.                                          *)
(***************************************************************************)
US_STATE_ABBREVS ==
    { <<"A","L">>, <<"A","K">>, <<"A","Z">>, <<"A","R">>, <<"C","A">>,
      <<"C","O">>, <<"C","T">>, <<"D","E">>, <<"F","L">>, <<"G","A">>,
      <<"H","I">>, <<"I","D">>, <<"I","L">>, <<"I","N">>, <<"I","A">>,
      <<"K","S">>, <<"K","Y">>, <<"L","A">>, <<"M","E">>, <<"M","D">>,
      <<"M","A">>, <<"M","I">>, <<"M","N">>, <<"M","S">>, <<"M","O">>,
      <<"M","T">>, <<"N","E">>, <<"N","V">>, <<"N","H">>, <<"N","J">>,
      <<"N","M">>, <<"N","Y">>, <<"N","C">>, <<"N","D">>, <<"O","H">>,
      <<"O","K">>, <<"O","R">>, <<"P","A">>, <<"R","I">>, <<"S","C">>,
      <<"S","D">>, <<"T","N">>, <<"T","X">>, <<"U","T">>, <<"V","T">>,
      <<"V","A">>, <<"W","A">>, <<"W","V">>, <<"W","I">>, <<"W","Y">>,
      <<"D","C">> }

\* the dict, were a US state code among its keys
CountrySynonymsWithStateCode ==
    [k \in { <<"U","K">>, <<"U","T">> } |-> <<"G","B">>]

\* the dict {"UK": "GB"}, as a function on its keys
COUNTRY_SYNONYMS == [k \in { <<"U","K">> } |-> <<"G","B">>]

(***************************************************************************)
(* try_geocode_fallbacks: the parts of the query and the two rewrites.     *)
(***************************************************************************)
\* parts = [p.strip() for p in location_query.split(",")]
Parts(location_query) ==
    LET raw == SplitComma(location_query)
    IN  [i \in 1..Len(raw) |-> Strip(raw[i])]

\* parts[-1].upper().replace(".", "")
LastPart(parts) == RemovePeriods(Upper(parts[Len(parts)]))

\* the guard of fallback (A), were a single part enough
SynonymAppliesToOnePart(location_query) ==
    LET parts == Parts(location_query)
    IN  Len(parts) >= 1 /\ LastPart(parts) \in DOMAIN COUNTRY_SYNONYMS

\* the guard of fallback (A)
SynonymApplies(location_query) ==
    LET parts == Parts(location_query)
    IN  Len(parts) >= 2 /\ LastPart(parts) \in DOMAIN COUNTRY_SYNONYMS

\* fallback_query of fallback (A), were the code appended to all the parts
SynonymQueryAppended(location_query) ==
    LET parts == Parts(location_query)
    IN  JoinComma(parts) \o <<",">> \o COUNTRY_SYNONYMS[LastPart(parts)]

\* fallback_query of fallback (A)
SynonymQuery(location_query) ==
    LET parts == Parts(location_query)
    IN  JoinComma(SubSeq(parts, 1, Len(parts) - 1))
            \o <<",">> \o COUNTRY_SYNONYMS[LastPart(parts)]

\* the guard of fallback (B)
StateApplies(location_query) ==
    LET parts == Parts(location_query)
    IN  Len(parts) >= 2 /\ LastPart(parts) \in US_STATE_ABBREVS

\* fallback_query of fallback (B), were it rebuilt from the parts
StateQueryFromParts(location_query) ==
    JoinComma(Parts(location_query)) \o <<",", "U", "S">>

\* fallback_query of fallback (B)
StateQuery(location_query) == location_query \o <<",", " ", "U", "S">>

(***************************************************************************)
(* What the Weather Provider can answer.                                   *)
(*                                                                         *)
(* A geocode match is the first element of the list direct_geocode         *)
(* returns.  A weather payload is the dict get_weather_by_latlon returns:  *)
(*   main    Absent, Malformed (not a dict) or a dict of temp/humidity     *)
(*   wind    Absent, Malformed (not a dict) or a dict of speed             *)
(*   weather Absent, an empty list, a list whose first element is a dict   *)
(*           of description, or a list whose first element is no dict      *)
(*   name    the provider's own city name                                  *)
(*   sys     Absent or a dict of the provider's own country                *)
(* Temperatures are in hundredths of a kelvin, wind speeds in tenths.      *)
(***************************************************************************)
Dict(r) == [tag |-> "dict", d |-> r]
EmptyList == [tag |-> "list", first |-> Absent]
ListOf(x) == [tag |-> "list", first |-> x]

MatchBoston ==
    [lat |-> Num(42), lon |-> Num(-71), name |-> Str("Boston"),
     country |-> Str("US"), state |-> Str("Massachusetts")]
MatchLondon ==
    [lat |-> Num(51), lon |-> Num(0), name |-> Str("London"),
     country |-> Str("GB"), state |-> Absent]
MatchNoName ==
    [lat |-> Num(42), lon |-> Num(-71), name |-> Absent,
     country |-> Str("US"), state |-> Str("Massachusetts")]
MatchEmptyName ==
    [lat |-> Num(1), lon |-> Num(1), name |-> Str(""),
     country |-> Absent, state |-> Absent]
MatchNoLat ==
    [lat |-> Absent, lon |-> Num(-71), name |-> Str("Boston"),
     country |-> Str("US"), state |-> Str("Massachusetts")]

Matches == {MatchBoston, MatchLondon, MatchNoName, MatchEmptyName, MatchNoLat}

CompleteMain == Dict([temp |-> Num(29315), humidity |-> Num(50)])
CompleteWind == Dict([speed |-> Num(50)])
ClearSky == ListOf(Dict([description |-> Str("clear sky")]))
ProviderSys == Dict([country |-> Str("ZZ"), state |-> Absent])

PayloadFull ==
    [main |-> CompleteMain, wind |-> CompleteWind, weather |-> ClearSky,
     name |-> Str("Provider Town"), sys |-> ProviderSys]
PayloadNoSys ==
    [main |-> CompleteMain, wind |-> CompleteWind, weather |-> ClearSky,
     name |-> Absent, sys |-> Absent]
PayloadZeros ==
    [main |-> Dict([temp |-> Num(0), humidity |-> Num(0)]),
     wind |-> Dict([speed |-> Num(0)]), weather |-> EmptyList,
     name |-> Absent, sys |-> Absent]
PayloadNoWind ==
    [main |-> CompleteMain, wind |-> Absent, weather |-> ClearSky,
     name |-> Str("Provider Town"), sys |-> ProviderSys]
PayloadNoHumidity ==
    [main |-> Dict([temp |-> Num(29315), humidity |-> Absent]),
     wind |-> CompleteWind, weather |-> Absent,
     name |-> Absent, sys |-> Absent]
PayloadNoMain ==
    [main |-> Absent, wind |-> CompleteWind, weather |-> ClearSky,
     name |-> Str("Provider Town"), sys |-> Absent]
PayloadBadTemp ==
    [main |-> Dict([temp |-> Malformed, humidity |-> Num(50)]),
     wind |-> CompleteWind, weather |-> ClearSky,
     name |-> Absent, sys |-> Absent]
PayloadBadMain ==
    [main |-> Malformed, wind |-> CompleteWind, weather |-> ClearSky,
     name |-> Absent, sys |-> Absent]
PayloadBadWeatherNoWind ==
    [main |-> CompleteMain, wind |-> Absent, weather |-> ListOf(Malformed),
     name |-> Absent, sys |-> ProviderSys]

Payloads ==
    {PayloadFull, PayloadNoSys, PayloadZeros, PayloadNoWind, PayloadNoHumidity,
     PayloadNoMain, PayloadBadTemp, PayloadBadMain, PayloadBadWeatherNoWind}

\* direct_geocode: a RequestException, an empty list, or a list of one match
GeocodeReplies ==
    {[kind |-> "error"], [kind |-> "empty"]}
        \cup {[kind |-> "match", match |-> m] : m \in Matches}

\* get_weather_by_latlon: a RequestException or a payload
WeatherReplies ==
    {[kind |-> "error"]} \cup {[kind |-> "payload", payload |-> p] : p \in Payloads}

(***************************************************************************)
(* finalize_weather_data, around its one provider call.                    *)
(***************************************************************************)
\* geocode_data[0]['lat'] / ['lon'] raise KeyError when the key is missing
CoordinatesRaise(match) == match.lat = Absent \/ match.lon = Absent

\* the overlay, were the provider's own name kept when it has one
OverlayKeepsProviderName(match, payload) ==
    LET sys == IF payload.sys = Absent
               THEN [country |-> Absent, state |-> Absent]
               ELSE payload.sys.d
    IN  [payload EXCEPT
            !.sys = Dict([sys EXCEPT !.country = Get(match.country),
                                     !.state = Get(match.state)]),
            !.name = IF payload.name = Absent THEN Get(match.name)
                     ELSE payload.name]

\* the overlay of the match's country, state and name on the payload
Overlay(match, payload) ==
    LET sys == IF payload.sys = Absent
               THEN [country |-> Absent, state |-> Absent]
               ELSE payload.sys.d
    IN  [payload EXCEPT
            !.sys = Dict([sys EXCEPT !.country = Get(match.country),
                                     !.state = Get(match.state)]),
            !.name = Get(match.name)]

(***************************************************************************)
(* convert_temperatures and calculate_comfort_index, in exact scaled       *)
(* integers: kelvin and celsius in hundredths of a degree, fahrenheit in   *)
(* five-hundredths, humidity in percent, wind speed in tenths, the comfort *)
(* index in units of 1/80000.                                              *)
(***************************************************************************)
KelvinOffset == 27315
FahrenheitOffset == 16000
TempClampHigh == 4000
WindClampHigh == 100

Min(a, b) == IF a <= b THEN a ELSE b
Max(a, b) == IF a >= b THEN a ELSE b

\* celsius = kelvin - 273.15
Celsius(kelvin) == kelvin - KelvinOffset

\* fahrenheit = (celsius * 9/5) + 32
Fahrenheit(celsius) == celsius * 9 + FahrenheitOffset

\* convert_temperatures: (None, None) for None, a TypeError for a non-number
convert_temperatures(kelvin) ==
    IF kelvin = None THEN [celsius |-> None, fahrenheit |-> None]
    ELSE [celsius |-> Num(Celsius(kelvin.v)),
          fahrenheit |-> Num(Fahrenheit(Celsius(kelvin.v)))]

\* the index, were the wind speed clamped at 0 as well
ComfortValueWindClamped(temp_celsius, humidity, wind_speed) ==
    10 * Max(0, Min(temp_celsius, TempClampHigh))
        + 240 * (100 - humidity)
        + 160 * (WindClampHigh - Max(0, Min(wind_speed, WindClampHigh)))

\* 0.5 * normalized_temp + 0.3 * normalized_humidity + 0.2 * normalized_wind
ComfortValue(temp_celsius, humidity, wind_speed) ==
    10 * Max(0, Min(temp_celsius, TempClampHigh))
        + 240 * (100 - humidity)
        + 160 * (WindClampHigh - Min(wind_speed, WindClampHigh))

\* calculate_comfort_index: None when any argument is None
calculate_comfort_index(temp_celsius, humidity, wind_speed) ==
    IF None \in {temp_celsius, humidity, wind_speed} THEN None
    ELSE Num(ComfortValue(temp_celsius.v, humidity.v, wind_speed.v))

(***************************************************************************)
(* get_weather: shaping one query's result from the enriched observation.  *)
(***************************************************************************)
FetchFailedText ==
    "Could not fetch weather data for '{original_input}'. Location may be invalid, not found, or an API/network error occurred."
IncompleteText == "Incomplete data received from the weather service API."
InternalErrorText ==
    "An internal error occurred while processing the weather data for this location."

\* the result appended when get_weather_data_geocoded returned None
FetchFailure(original_input) ==
    [original_input |-> original_input,
     error |-> [text |-> FetchFailedText, args |-> <<original_input>>]]

\* the result appended by the except clause of the per-query try block
InternalFailure(original_input) ==
    [original_input |-> original_input,
     error |-> [text |-> InternalErrorText, args |-> <<>>]]

\* main_info.get / weather_details[0].get / wind_info.get raise AttributeError
\* on a value that is no dict
ExtractionRaises(wd) ==
    \/ wd.main = Malformed
    \/ (wd.weather # Absent /\ wd.weather.first = Malformed)
    \/ wd.wind = Malformed

TempKelvin(wd) == IF wd.main = Absent THEN None ELSE Get(wd.main.d.temp)
Humidity(wd) == IF wd.main = Absent THEN None ELSE Get(wd.main.d.humidity)
WindSpeed(wd) == IF wd.wind = Absent THEN None ELSE Get(wd.wind.d.speed)
WeatherDesc(wd) ==
    IF wd.weather = Absent \/ wd.weather.first = Absent THEN Str("N/A")
    ELSE IF wd.weather.first.d.description = Absent THEN Str("N/A")
    ELSE wd.weather.first.d.description
CityName(wd) == Get(wd.name)
CountryCode(wd) == Get(wd.sys.d.country)
StateName(wd) == Get(wd.sys.d.state)

\* the test for incomplete data, were it a test for falsy values
IsIncompleteWhenFalsy(wd) ==
    \/ ~Truthy(TempKelvin(wd))
    \/ ~Truthy(Humidity(wd))
    \/ ~Truthy(WindSpeed(wd))
    \/ ~Truthy(CityName(wd))

\* the test for incomplete data, were the wind speed left out of it
IsIncompleteIgnoringWind(wd) ==
    \/ None \in {TempKelvin(wd), Humidity(wd)}
    \/ ~Truthy(CityName(wd))

\* None in [temp_kelvin, humidity, wind_speed] or not city_name_api
IsIncomplete(wd) ==
    \/ None \in {TempKelvin(wd), Humidity(wd), WindSpeed(wd)}
    \/ ~Truthy(CityName(wd))

\* arithmetic on a value that is no number raises TypeError: in
\* convert_temperatures on the temperature, in calculate_comfort_index (after
\* its test for None) on the humidity and the wind speed
DerivationRaises(wd) ==
    \/ TempKelvin(wd) = Malformed
    \/ /\ None \notin {TempKelvin(wd), Humidity(wd), WindSpeed(wd)}
       /\ (Humidity(wd) = Malformed \/ WindSpeed(wd) = Malformed)

IncompleteFailure(original_input, wd) ==
    [original_input |-> original_input,
     city_name |-> IF Truthy(CityName(wd)) THEN CityName(wd) ELSE Str("Unknown"),
     country_code |-> CountryCode(wd),
     state |-> StateName(wd),
     error |-> [text |-> IncompleteText, args |-> <<>>]]

CityResult(original_input, wd) ==
    LET temps == convert_temperatures(TempKelvin(wd))
    IN  [original_input |-> original_input,
         city_name |-> CityName(wd),
         country_code |-> CountryCode(wd),
         state |-> StateName(wd),
         weather_desc |-> WeatherDesc(wd),
         temp_kelvin |-> TempKelvin(wd),
         temp_celsius |-> temps.celsius,
         temp_fahrenheit |-> temps.fahrenheit,
         humidity |-> Humidity(wd),
         wind_speed |-> WindSpeed(wd),
         comfort_index |->
             calculate_comfort_index(temps.celsius, Humidity(wd), WindSpeed(wd))]

\* the body of the loop after get_weather_data_geocoded returned wd
ShapeResult(original_input, wd) ==
    IF wd = None THEN FetchFailure(original_input)
    ELSE IF ExtractionRaises(wd) THEN InternalFailure(original_input)
    ELSE IF IsIncomplete(wd) THEN IncompleteFailure(original_input, wd)
    ELSE IF DerivationRaises(wd) THEN InternalFailure(original_input)
    ELSE CityResult(original_input, wd)

HasError(record) == "error" \in DOMAIN record

(***************************************************************************)
(* The requests and the provider they are served by.  A batch of several   *)
(* queries is a list of at most MaxBatch of the example queries, served by *)
(* a provider that answers with the representative replies; a batch of one *)
(* query has an example query or any string of at most MaxLen characters   *)
(* of Alphabet, served by a provider that answers with any reply.          *)
(***************************************************************************)
QueryBlank == <<" ", "\t">>
QueryNowhere == <<"N","o","w","h","e","r","e","1","2","3">>
QueryLondon == <<"L","o","n","d","o","n",","," ","U","K">>
QueryBoston == <<" ","B","o","s","t","o","n",","," ","M","A"," ">>
ExampleQueries == {QueryBlank, QueryNowhere, QueryLondon, QueryBoston}

Alphabet == {"u", "K", "T", ",", " ", "."}

SeqsUpTo(S, n) == UNION {[1..k -> S] : k \in 0..n}

AnyProvider == [geocode |-> GeocodeReplies, weather |-> WeatherReplies]

RepresentativeProvider ==
    [geocode |-> {[kind |-> "error"], [kind |-> "empty"],
                  [kind |-> "match", match |-> MatchBoston],
                  [kind |-> "match", match |-> MatchNoLat]},
     weather |-> {[kind |-> "error"],
                  [kind |-> "payload", payload |-> PayloadFull],
                  [kind |-> "payload", payload |-> PayloadNoWind],
                  [kind |-> "payload", payload |-> PayloadBadTemp]}]

SingleQueryBatches ==
    {<<q>> : q \in ExampleQueries \cup SeqsUpTo(Alphabet, MaxLen)}

(***************************************************************************)
(* State.                                                                  *)
(***************************************************************************)
VARIABLES
    provider,          \* the replies the Weather Provider may give
    api_key_set,       \* OPENWEATHER_API_KEY is in the environment
    location_queries,  \* data['cities'] of the request
    pc,                \* where the handler stands
    idx,               \* position of the batch loop in location_queries
    original_input,    \* the trimmed query of the current iteration
    geo_data,          \* the match in hand, None without one
    fallback_query,    \* the rewritten query of the fallback in progress
    weather_resp,      \* the payload of the current query's weather call
    weather_data,      \* what get_weather_data_geocoded returned last
    all_results_data,  \* the results, in order
    calls,             \* every provider call issued, in order
    fallback_checks,   \* the fallback guards evaluated for the current query
    db,                \* the committed rows of weather_records
    store_calls,       \* the record lists handed to store_weather_data
    response,          \* the HTTP response, None until the handler returns
    batches,           \* the number of requests received so far
    comfort_args,      \* the arguments of a direct call of calculate_comfort_index
    comfort_result     \* what that call returned, NotCalled before it

\* what a request is made of: no action changes it
request == <<provider, api_key_set, location_queries>>

\* a direct call of calculate_comfort_index: the handler leaves it alone
unit == <<comfort_args, comfort_result>>

vars == <<provider, api_key_set, location_queries, pc, idx, original_input, geo_data,
          fallback_query, weather_resp, weather_data, all_results_data, calls,
          fallback_checks, db, store_calls, response, batches, comfort_args,
          comfort_result>>

\* no call made
NotCalled == [tag |-> "not_called"]

\* the handler before it has read a request
Idle ==
    /\ pc = "request"
    /\ idx = 0
    /\ original_input = <<>>
    /\ geo_data = None
    /\ fallback_query = <<>>
    /\ weather_resp = None
    /\ weather_data = None
    /\ all_results_data = <<>>
    /\ calls = <<>>
    /\ fallback_checks = <<>>
    /\ response = None

Init ==
    /\ api_key_set \in BOOLEAN
    /\ \/ /\ location_queries \in SeqsUpTo(ExampleQueries, MaxBatch)
          /\ provider = RepresentativeProvider
       \/ /\ location_queries \in SingleQueryBatches
          /\ provider = AnyProvider
    /\ Idle
    /\ db = <<>>
    /\ store_calls = <<>>
    /\ batches = 1
    /\ comfort_args = NotCalled
    /\ comfort_result = NotCalled

\* one entry of calls: the call, the loop position it was issued at, and the
\* kind of answer the provider gave
GeocodeCall(query, reply) ==
    [fn |-> "direct_geocode", query |-> query, idx |-> idx,
     reply |-> reply.kind]
WeatherCall(match, reply) ==
    [fn |-> "get_weather_by_latlon", lat |-> match.lat, lon |-> match.lon,
     idx |-> idx, reply |-> reply.kind]

(***************************************************************************)
(* get_weather: validation of the request.                                 *)
(***************************************************************************)
\* 'cities' is an empty list: 400
RejectEmptyBatch ==
    /\ pc = "request"
    /\ location_queries = <<>>
    /\ response' = [status |-> 400,
                    error |-> "Invalid request. \"cities\" must be a non-empty list of strings."]
    /\ pc' = "done"
    /\ UNCHANGED <<request, batches, unit, idx, original_input, geo_data,
                   fallback_query, weather_resp, weather_data, all_results_data,
                   calls, fallback_checks, db, store_calls>>

\* no API key: 500
RejectMissingKey ==
    /\ pc = "request"
    /\ location_queries # <<>>
    /\ ~api_key_set
    /\ response' = [status |-> 500,
                    error |-> "Server configuration error (API key missing)."]
    /\ pc' = "done"
    /\ UNCHANGED <<request, batches, unit, idx, original_input, geo_data,
                   fallback_query, weather_resp, weather_data, all_results_data,
                   calls, fallback_checks, db, store_calls>>

\* the start of the loop, were the API key not looked at
StartBatchWithoutKey ==
    /\ pc = "request"
    /\ location_queries # <<>>
    /\ pc' = "loop"
    /\ idx' = 1
    /\ UNCHANGED <<request, batches, unit, original_input, geo_data,
                   fallback_query, weather_resp, weather_data, all_results_data,
                   calls, fallback_checks, db, store_calls, response>>

\* the loop over location_queries starts
StartBatch ==
    /\ pc = "request"
    /\ location_queries # <<>>
    /\ api_key_set
    /\ pc' = "loop"
    /\ idx' = 1
    /\ UNCHANGED <<request, batches, unit, original_input, geo_data,
                   fallback_query, weather_resp, weather_data, all_results_data,
                   calls, fallback_checks, db, store_calls, response>>

(***************************************************************************)
(* get_weather_data_geocoded and try_geocode_fallbacks, one action per     *)
(* provider call.  An action runs the code from the call up to the next    *)
(* provider call, or to the end of the loop iteration.                     *)
(***************************************************************************)
\* the end of an iteration, were no result appended for a failed fetch
ResolvedDropsFailure(input, wd, query, checks) ==
    /\ weather_data' = wd
    /\ all_results_data' =
           IF wd = None THEN all_results_data
           ELSE Append(all_results_data, ShapeResult(input, wd))
    /\ idx' = idx + 1
    /\ pc' = "loop"
    /\ fallback_query' = query
    /\ fallback_checks' = checks

\* the end of an iteration, were the loop left after a Failure
ResolvedBreaksOnFailure(input, wd, query, checks) ==
    /\ weather_data' = wd
    /\ all_results_data' = Append(all_results_data, ShapeResult(input, wd))
    /\ idx' = IF HasError(ShapeResult(input, wd))
              THEN Len(location_queries) + 1 ELSE idx + 1
    /\ pc' = "loop"
    /\ fallback_query' = query
    /\ fallback_checks' = checks

\* get_weather_data_geocoded returned wd: the result is appended and the
\* loop moves on
Resolved(input, wd, query, checks) ==
    /\ weather_data' = wd
    /\ all_results_data' = Append(all_results_data, ShapeResult(input, wd))
    /\ idx' = idx + 1
    /\ pc' = "loop"
    /\ fallback_query' = query
    /\ fallback_checks' = checks

\* the code stands before its next provider call
Await(stage, query, checks) ==
    /\ pc' = stage
    /\ fallback_query' = query
    /\ fallback_checks' = checks
    /\ UNCHANGED <<weather_data, all_results_data, idx>>

\* try_geocode_fallbacks from the guard of fallback (B) on
FromStateFallback(input, query, checks) ==
    IF StateApplies(input)
    THEN Await("state_geocode", StateQuery(input), Append(checks, "B"))
    ELSE Resolved(input, None, query, Append(checks, "B"))

\* try_geocode_fallbacks from its first line
FromSynonymFallback(input) ==
    IF SynonymApplies(input)
    THEN Await("synonym_geocode", SynonymQuery(input), <<"A">>)
    ELSE FromStateFallback(input, <<>>, <<"A">>)

\* a blank query is skipped
SkipEmpty ==
    /\ pc = "loop"
    /\ idx <= Len(location_queries)
    /\ Strip(location_queries[idx]) = <<>>
    /\ original_input' = <<>>
    /\ idx' = idx + 1
    /\ UNCHANGED <<request, batches, unit, pc, geo_data, fallback_query,
                   weather_resp, weather_data, all_results_data, calls,
                   fallback_checks, db, store_calls, response>>

\* the direct geocode of the trimmed query
DirectGeocode ==
    /\ pc = "loop"
    /\ idx <= Len(location_queries)
    /\ LET input == Strip(location_queries[idx])
       IN  /\ input # <<>>
           /\ original_input' = input
           /\ \E reply \in provider.geocode :
                /\ calls' = Append(calls, GeocodeCall(input, reply))
                /\ CASE reply.kind = "error" ->
                          /\ geo_data' = None
                          /\ Resolved(input, None, <<>>, <<>>)
                     [] reply.kind = "empty" ->
                          /\ geo_data' = None
                          /\ FromSynonymFallback(input)
                     [] reply.kind = "match" ->
                          /\ geo_data' = reply.match
                          /\ IF CoordinatesRaise(reply.match)
                             THEN Resolved(input, None, <<>>, <<>>)
                             ELSE Await("direct_weather", <<>>, <<>>)
    /\ weather_resp' = None
    /\ UNCHANGED <<request, batches, unit, db, store_calls, response>>

\* the direct attempt, were the fallbacks tried after a failed weather fetch
DirectWeatherFallsBack ==
    /\ pc = "direct_weather"
    /\ \E reply \in provider.weather :
         /\ calls' = Append(calls, WeatherCall(geo_data, reply))
         /\ IF reply.kind = "error"
            THEN /\ weather_resp' = None
                 /\ FromSynonymFallback(original_input)
            ELSE /\ weather_resp' = reply.payload
                 /\ Resolved(original_input, Overlay(geo_data, reply.payload),
                             fallback_query, fallback_checks)
    /\ UNCHANGED <<request, batches, unit, original_input, geo_data, db,
                   store_calls, response>>

\* finalize_weather_data on the direct match
DirectWeather ==
    /\ pc = "direct_weather"
    /\ \E reply \in provider.weather :
         /\ calls' = Append(calls, WeatherCall(geo_data, reply))
         /\ IF reply.kind = "error"
            THEN /\ weather_resp' = None
                 /\ Resolved(original_input, None, fallback_query,
                             fallback_checks)
            ELSE /\ weather_resp' = reply.payload
                 /\ Resolved(original_input, Overlay(geo_data, reply.payload),
                             fallback_query, fallback_checks)
    /\ UNCHANGED <<request, batches, unit, original_input, geo_data, db,
                   store_calls, response>>

\* the geocode of fallback (A)
SynonymGeocode ==
    /\ pc = "synonym_geocode"
    /\ \E reply \in provider.geocode :
         /\ calls' = Append(calls, GeocodeCall(fallback_query, reply))
         /\ IF reply.kind = "match"
            THEN /\ geo_data' = reply.match
                 /\ IF CoordinatesRaise(reply.match)
                    THEN FromStateFallback(original_input, fallback_query,
                                           fallback_checks)
                    ELSE Await("synonym_weather", fallback_query,
                               fallback_checks)
            ELSE /\ geo_data' = None
                 /\ FromStateFallback(original_input, fallback_query,
                                      fallback_checks)
    /\ UNCHANGED <<request, batches, unit, original_input, weather_resp,
                   db, store_calls, response>>

\* fallback (A), were a provider error of its weather fetch to leave
\* try_geocode_fallbacks
SynonymWeatherErrorEscapes ==
    /\ pc = "synonym_weather"
    /\ \E reply \in provider.weather :
         /\ calls' = Append(calls, WeatherCall(geo_data, reply))
         /\ IF reply.kind = "error"
            THEN /\ weather_resp' = None
                 /\ Resolved(original_input, None, fallback_query,
                             fallback_checks)
            ELSE /\ weather_resp' = reply.payload
                 /\ Resolved(original_input, Overlay(geo_data, reply.payload),
                             fallback_query, fallback_checks)
    /\ UNCHANGED <<request, batches, unit, original_input, geo_data, db,
                   store_calls, response>>

\* finalize_weather_data inside fallback (A)
SynonymWeather ==
    /\ pc = "synonym_weather"
    /\ \E reply \in provider.weather :
         /\ calls' = Append(calls, WeatherCall(geo_data, reply))
         /\ IF reply.kind = "error"
            THEN /\ weather_resp' = None
                 /\ FromStateFallback(original_input, fallback_query,
                                      fallback_checks)
            ELSE /\ weather_resp' = reply.payload
                 /\ Resolved(original_input, Overlay(geo_data, reply.payload),
                             fallback_query, fallback_checks)
    /\ UNCHANGED <<request, batches, unit, original_input, geo_data, db,
                   store_calls, response>>

\* the geocode of fallback (B)
StateGeocode ==
    /\ pc = "state_geocode"
    /\ \E reply \in provider.geocode :
         /\ calls' = Append(calls, GeocodeCall(fallback_query, reply))
         /\ IF reply.kind = "match"
            THEN /\ geo_data' = reply.match
                 /\ IF CoordinatesRaise(reply.match)
                    THEN Resolved(original_input, None, fallback_query,
                                  fallback_checks)
                    ELSE Await("state_weather", fallback_query, fallback_checks)
            ELSE /\ geo_data' = None
                 /\ Resolved(original_input, None, fallback_query,
                             fallback_checks)
    /\ UNCHANGED <<request, batches, unit, original_input, weather_resp,
                   db, store_calls, response>>

\* fallback (B), were the observation it fetched not returned
StateWeatherDropsResult ==
    /\ pc = "state_weather"
    /\ \E reply \in provider.weather :
         /\ calls' = Append(calls, WeatherCall(geo_data, reply))
         /\ weather_resp' = IF reply.kind = "error" THEN None ELSE reply.payload
         /\ Resolved(original_input, None, fallback_query, fallback_checks)
    /\ UNCHANGED <<request, batches, unit, original_input, geo_data, db,
                   store_calls, response>>

\* finalize_weather_data inside fallback (B)
StateWeather ==
    /\ pc = "state_weather"
    /\ \E reply \in provider.weather :
         /\ calls' = Append(calls, WeatherCall(geo_data, reply))
         /\ IF reply.kind = "error"
            THEN /\ weather_resp' = None
                 /\ Resolved(original_input, None, fallback_query,
                             fallback_checks)
            ELSE /\ weather_resp' = reply.payload
                 /\ Resolved(original_input, Overlay(geo_data, reply.payload),
                             fallback_query, fallback_checks)
    /\ UNCHANGED <<request, batches, unit, original_input, geo_data, db,
                   store_calls, response>>

(***************************************************************************)
(* The end of get_weather: store_weather_data and the response.            *)
(***************************************************************************)
\* the row store_weather_data inserts for one record
DbRow(record) ==
    [city |-> record.city_name,
     temperature_kelvin |-> record.temp_kelvin,
     temperature_celsius |-> record.temp_celsius,
     temperature_fahrenheit |-> record.temp_fahrenheit,
     humidity |-> record.humidity,
     wind_speed |-> record.wind_speed,
     weather_description |-> record.weather_desc,
     comfort_index |-> record.comfort_index]

IsValidRecord(record) == ~HasError(record)

\* the rows store_weather_data inserts for a list of records
RowsOf(weather_data_list) ==
    LET kept == SelectSeq(weather_data_list, IsValidRecord)
    IN  [i \in 1..Len(kept) |-> DbRow(kept[i])]

\* the table after store_weather_data, were each INSERT committed on its own:
\* the rows inserted before the error stay
StoredTableKeepsInserts(table, weather_data_list, failed_at) ==
    IF failed_at = 0 THEN table \o RowsOf(weather_data_list)
    ELSE table \o SubSeq(RowsOf(weather_data_list), 1, failed_at - 1)

\* the table after store_weather_data: failed_at = 0 is a run without error,
\* k in 1..n an sqlite3.Error at the k-th insert, n + 1 one at the commit; the
\* connection is then closed without a commit and the inserts are discarded
StoredTable(table, weather_data_list, failed_at) ==
    IF failed_at = 0 THEN table \o RowsOf(weather_data_list) ELSE table

OkResponse == [status |-> 200, weather_data |-> all_results_data]

\* the end of get_weather, were every result stored, a Failure as a row that
\* has its input for a city
StoreAndRespondEveryResult ==
    /\ pc = "loop"
    /\ idx > Len(location_queries)
    /\ SelectSeq(all_results_data, IsValidRecord) # <<>>
    /\ db' = db \o [i \in 1..Len(all_results_data) |->
                       IF HasError(all_results_data[i])
                       THEN [city |-> Str("?")]
                       ELSE DbRow(all_results_data[i])]
    /\ store_calls' =
           Append(store_calls,
                  [records |-> SelectSeq(all_results_data, IsValidRecord),
                   returned |-> TRUE])
    /\ response' = OkResponse
    /\ pc' = "done"
    /\ UNCHANGED <<request, batches, unit, idx, original_input, geo_data,
                   fallback_query, weather_resp, weather_data, all_results_data,
                   calls, fallback_checks>>

\* the end of get_weather, were a failure of the store reported to the caller
StoreAndRespondReportsFailure ==
    /\ pc = "loop"
    /\ idx > Len(location_queries)
    /\ LET valid_records_to_store == SelectSeq(all_results_data, IsValidRecord)
       IN  /\ valid_records_to_store # <<>>
           /\ \E failed_at \in 0..(Len(valid_records_to_store) + 1) :
                /\ db' = StoredTable(db, valid_records_to_store, failed_at)
                /\ store_calls' =
                       Append(store_calls,
                              [records |-> valid_records_to_store,
                               returned |-> (failed_at = 0)])
                /\ response' = IF failed_at = 0 THEN OkResponse
                               ELSE [status |-> 500,
                                     error |-> "Failed to store weather data."]
    /\ pc' = "done"
    /\ UNCHANGED <<request, batches, unit, idx, original_input, geo_data,
                   fallback_query, weather_resp, weather_data, all_results_data,
                   calls, fallback_checks>>

\* the batch has valid records: they are stored and the response returned
StoreAndRespond ==
    /\ pc = "loop"
    /\ idx > Len(location_queries)
    /\ LET valid_records_to_store == SelectSeq(all_results_data, IsValidRecord)
       IN  /\ valid_records_to_store # <<>>
           /\ \E failed_at \in 0..(Len(valid_records_to_store) + 1) :
                /\ db' = StoredTable(db, valid_records_to_store, failed_at)
                /\ store_calls' =
                       Append(store_calls,
                              [records |-> valid_records_to_store,
                               returned |-> (failed_at = 0)])
    /\ response' = OkResponse
    /\ pc' = "done"
    /\ UNCHANGED <<request, batches, unit, idx, original_input, geo_data,
                   fallback_query, weather_resp, weather_data, all_results_data,
                   calls, fallback_checks>>

\* the batch has no valid record: the response is returned
RespondWithoutStore ==
    /\ pc = "loop"
    /\ idx > Len(location_queries)
    /\ SelectSeq(all_results_data, IsValidRecord) = <<>>
    /\ response' = OkResponse
    /\ pc' = "done"
    /\ UNCHANGED <<request, batches, unit, idx, original_input, geo_data,
                   fallback_query, weather_resp, weather_data, all_results_data,
                   calls, fallback_checks, db, store_calls>>

Next ==
    \/ RejectEmptyBatch
    \/ RejectMissingKey
    \/ StartBatch
    \/ SkipEmpty
    \/ DirectGeocode
    \/ DirectWeather
    \/ SynonymGeocode
    \/ SynonymWeather
    \/ StateGeocode
    \/ StateWeather
    \/ StoreAndRespond
    \/ RespondWithoutStore

Spec == Init /\ [][Next]_vars

(***************************************************************************)
(* The server over several requests: weather_data.db outlives a request,   *)
(* everything local to get_weather starts afresh.                          *)
(***************************************************************************)
\* the batches of the requests after the first: one query at most
LaterBatches == {<<>>} \cup {<<q>> : q \in ExampleQueries}

\* the next POST to /get_weather arrives after the previous response
NextRequest ==
    /\ pc = "done"
    /\ batches < MaxRequests
    /\ batches' = batches + 1
    /\ api_key_set' \in BOOLEAN
    /\ location_queries' \in LaterBatches
    /\ pc' = "request"
    /\ idx' = 0
    /\ original_input' = <<>>
    /\ geo_data' = None
    /\ fallback_query' = <<>>
    /\ weather_resp' = None
    /\ weather_data' = None
    /\ all_results_data' = <<>>
    /\ calls' = <<>>
    /\ fallback_checks' = <<>>
    /\ response' = None
    /\ UNCHANGED <<provider, db, store_calls, unit>>

InitBatches ==
    /\ Init
    /\ provider = RepresentativeProvider

NextBatches ==
    \/ RejectEmptyBatch
    \/ RejectMissingKey
    \/ StartBatch
    \/ SkipEmpty
    \/ DirectGeocode
    \/ DirectWeather
    \/ SynonymGeocode
    \/ SynonymWeather
    \/ StateGeocode
    \/ StateWeather
    \/ StoreAndRespond
    \/ RespondWithoutStore
    \/ NextRequest

SpecBatches == InitBatches /\ [][NextBatches]_vars

(***************************************************************************)
(* calculate_comfort_index called on its own, on arguments drawn from      *)
(* bounded sets: whole degrees from MaxExcess below 0 to MaxExcess above   *)
(* 40, whole percents, whole wind speeds from MaxExcess below 0 to         *)
(* MaxExcess above 10, and None for each.                                  *)
(***************************************************************************)
Temperatures ==
    {None} \cup {Num(t) : t \in {c \in (0 - 100 * MaxExcess)
                                      ..(TempClampHigh + 100 * MaxExcess) :
                                    c % 100 = 0}}
Humidities == {None} \cup {Num(h) : h \in 0..100}
WindSpeeds ==
    {None} \cup {Num(w) : w \in {c \in (0 - 10 * MaxExcess)
                                      ..(WindClampHigh + 10 * MaxExcess) :
                                    c % 10 = 0}}

InitUnits ==
    /\ provider = RepresentativeProvider
    /\ api_key_set = TRUE
    /\ location_queries = <<>>
    /\ Idle
    /\ db = <<>>
    /\ store_calls = <<>>
    /\ batches = 1
    /\ comfort_args \in [temp_celsius : Temperatures,
                          humidity : Humidities,
                          wind_speed : WindSpeeds]
    /\ comfort_result = NotCalled

\* comfort_index = calculate_comfort_index(temp_celsius, humidity, wind_speed)
CallComfortIndex ==
    /\ comfort_result = NotCalled
    /\ comfort_args # NotCalled
    /\ comfort_result' = calculate_comfort_index(comfort_args.temp_celsius,
                                                 comfort_args.humidity,
                                                 comfort_args.wind_speed)
    /\ UNCHANGED <<request, batches, comfort_args, pc, idx, original_input,
                   geo_data, fallback_query, weather_resp, weather_data,
                   all_results_data, calls, fallback_checks, db, store_calls,
                   response>>

NextUnits == CallComfortIndex

SpecUnits == InitUnits /\ [][NextUnits]_vars

(***************************************************************************)
(* Vocabulary of the properties.                                           *)
(***************************************************************************)
\* the inputs of a batch that are not blank, trimmed, in order
RECURSIVE TrimmedNonEmpty(_)
TrimmedNonEmpty(queries) ==
    IF queries = <<>> THEN <<>>
    ELSE (IF Strip(Head(queries)) = <<>> THEN <<>> ELSE <<Strip(Head(queries))>>)
            \o TrimmedNonEmpty(Tail(queries))

\* the number of batch positions the loop has finished with
Handled == IF idx = 0 THEN 0 ELSE idx - 1

\* the non-blank positions the loop has finished with
HandledQueries ==
    {i \in 1..Handled : Strip(location_queries[i]) # <<>>}

\* the place in all_results_data of the result of position i
Rank(i) == Len(TrimmedNonEmpty(SubSeq(location_queries, 1, i)))
ResultAt(i) == all_results_data[Rank(i)]

\* the provider calls issued for position i, in order
IssuedAt(c, i) == c.idx = i
CallsAt(i) == SelectSeq(calls, LAMBDA c : IssuedAt(c, i))

OriginalInputs(results) ==
    [i \in 1..Len(results) |-> results[i].original_input]

\* the loop has just appended the result of position idx - 1; original_input,
\* geo_data, weather_resp and weather_data are still those of that query
JustResolved ==
    /\ pc \in {"loop", "done"}
    /\ idx >= 2
    /\ Strip(location_queries[idx - 1]) # <<>>
ThisResult == all_results_data[Len(all_results_data)]
ThisCalls == CallsAt(idx - 1)

IsGeocode(c) == c.fn = "direct_geocode"
IsWeather(c) == c.fn = "get_weather_by_latlon"

\* the four required fields of an observation are there
Present(v) == v \notin {Absent, None}
AllFourPresent(wd) ==
    /\ wd # None
    /\ wd.main.tag = "dict"
    /\ Present(wd.main.d.temp)
    /\ Present(wd.main.d.humidity)
    /\ wd.wind.tag = "dict"
    /\ Present(wd.wind.d.speed)
    /\ Present(wd.name)
    /\ wd.name # Str("")

\* no value of the observation has a type the shaping code fails on
ContainersWellFormed(wd) ==
    /\ wd.main # Malformed
    /\ wd.wind # Malformed
    /\ (wd.weather = Absent \/ wd.weather.first # Malformed)
WellFormed(wd) ==
    /\ ContainersWellFormed(wd)
    /\ wd.main = Absent
          \/ (wd.main.d.temp # Malformed /\ wd.main.d.humidity # Malformed)
    /\ wd.wind = Absent \/ wd.wind.d.speed # Malformed

\* what the provider served for a query, a match and a payload, has the four
\* required fields, well formed
ServedComplete(match, payload) ==
    /\ payload # None
    /\ Present(match.name) /\ match.name # Str("")
    /\ payload.main.tag = "dict"
    /\ payload.main.d.temp.tag = "num"
    /\ payload.main.d.humidity.tag = "num"
    /\ payload.wind.tag = "dict"
    /\ payload.wind.d.speed.tag = "num"
    /\ (payload.weather = Absent \/ payload.weather.first # Malformed)

(***************************************************************************)
(* C1.  For every batch and every behaviour of the provider, the results   *)
(* are exactly the trimmed non-blank inputs handled so far, one result per  *)
(* input and in input order; when the handler is done with a non-empty     *)
(* batch (credential present) it has handled every position and returns    *)
(* that list with status 200.                                              *)
(***************************************************************************)
C1_OneResultPerInput ==
    /\ OriginalInputs(all_results_data)
           = TrimmedNonEmpty(SubSeq(location_queries, 1, Handled))
    /\ (pc = "done" /\ api_key_set /\ location_queries # <<>>)
           => /\ idx = Len(location_queries) + 1
              /\ response.status = 200
              /\ response.weather_data = all_results_data

\* a batch of two different queries is answered by two results in input order,
\* a Success for the first (trimmed) and a Failure for the second
C1_Witness ==
    /\ pc = "done"
    /\ location_queries = <<QueryBoston, QueryLondon>>
    /\ response.status = 200
    /\ Len(response.weather_data) = 2
    /\ response.weather_data[1].original_input = Strip(QueryBoston)
    /\ ~HasError(response.weather_data[1])
    /\ response.weather_data[2].original_input = QueryLondon
    /\ HasError(response.weather_data[2])

(***************************************************************************)
(* C2.  The state fallback after a transient error of the direct geocode.  *)
(***************************************************************************)
UsSuffix == <<",", " ", "U", "S">>

\* the calls of position i are: direct geocode answered as `first`, then the
\* geocode of the query with ", US" appended answered by a match, then the
\* weather fetch answered by a payload
StateFallbackServed(i, first) ==
    LET cs == CallsAt(i)
    IN  /\ Len(cs) = 3
        /\ IsGeocode(cs[1]) /\ cs[1].reply = first
        /\ IsGeocode(cs[2]) /\ cs[2].reply = "match"
        /\ cs[2].query = Strip(location_queries[i]) \o UsSuffix
        /\ IsWeather(cs[3]) /\ cs[3].reply = "payload"

\* C2 as stated: a query that qualifies for the state fallback and whose direct
\* geocode raised a provider error is a Success whenever the provider serves
\* the fallback; so after such an error the geocode of the query with ", US"
\* appended is issued for that query.
C2_Original ==
    \A i \in HandledQueries :
        (/\ CallsAt(i)[1].reply = "error"
         /\ StateApplies(Strip(location_queries[i])))
            => \E k \in 2..Len(CallsAt(i)) :
                   /\ IsGeocode(CallsAt(i)[k])
                   /\ CallsAt(i)[k].query = Strip(location_queries[i]) \o UsSuffix

\* C2, amended: when the direct geocode returned an empty result and the state
\* fallback (geocode, then weather fetch) was served with complete data, the
\* query is a Success carrying its input; a provider error of the direct
\* geocode ends the query as a Failure after that single call.  In both cases
\* every handled query has its own result at its place in input order.
C2_StateFallbackAfterEmpty ==
    /\ (JustResolved /\ StateFallbackServed(idx - 1, "empty")
            /\ ServedComplete(geo_data, weather_resp))
          => /\ ~HasError(ThisResult)
             /\ ThisResult.original_input = Strip(location_queries[idx - 1])
    /\ \A i \in HandledQueries :
          /\ ResultAt(i).original_input = Strip(location_queries[i])
          /\ CallsAt(i)[1].reply = "error"
                => /\ Len(CallsAt(i)) = 1
                   /\ HasError(ResultAt(i))

\* the second query of a batch succeeded through the state fallback, after a
\* first query that failed
C2_Witness ==
    /\ JustResolved
    /\ idx = 3
    /\ StateFallbackServed(2, "empty")
    /\ ~HasError(ThisResult)
    /\ Len(all_results_data) = 2
    /\ HasError(all_results_data[1])
    /\ all_results_data[1].original_input = location_queries[1]

(***************************************************************************)
(* C3.  The rewrite of the country-synonym fallback.                       *)
(***************************************************************************)
QueryLondonGBSpaced == <<"L","o","n","d","o","n",","," ","G","B">>
QueryLondonGB == <<"L","o","n","d","o","n",",","G","B">>

\* the query has two parts or more and its last part, trimmed, upper-cased and
\* without periods, is `code`
LastPartIs(query, code) ==
    LET raw == SplitComma(query)
    IN  /\ Len(raw) >= 2
        /\ RemovePeriods(Upper(Strip(raw[Len(raw)]))) = code

\* the query with only its last part replaced: the text up to the last part,
\* with the blanks that lead it, is kept as it is
WithLastPartReplaced(query, code) ==
    LET raw == SplitComma(query)
        last == raw[Len(raw)]
        kept == Len(query) - Len(LStrip(last))
    IN  SubSeq(query, 1, kept) \o code

\* the parts of the query, each trimmed, with the last one replaced
TrimmedPartsWithLast(query, code) ==
    LET raw == SplitComma(query)
    IN  [j \in 1..Len(raw) |-> IF j < Len(raw) THEN Strip(raw[j]) ELSE code]

\* the geocode call that follows an empty direct geocode of position i is in
\* preparation or was issued, and its query satisfies Rewritten
RetriedWith(i, Rewritten(_)) ==
    IF Len(CallsAt(i)) = 1
    THEN /\ idx = i
         /\ pc \in {"synonym_geocode", "state_geocode"}
         /\ Rewritten(fallback_query)
    ELSE /\ IsGeocode(CallsAt(i)[2])
         /\ Rewritten(CallsAt(i)[2].query)

\* the positions whose direct geocode has returned an empty result
EmptyDirect ==
    {i \in 1..Len(location_queries) :
        CallsAt(i) # <<>> /\ CallsAt(i)[1].reply = "empty"}

\* C3 as stated: after an empty direct geocode of a query whose last part is
\* "UK", the second geocode call has the original query with only its last
\* part replaced by "GB": "London, GB" for "London, UK".
C3_Original ==
    \A i \in EmptyDirect :
        LET query == Strip(location_queries[i])
        IN  LastPartIs(query, <<"U","K">>)
                => RetriedWith(i, LAMBDA r :
                       /\ r = WithLastPartReplaced(query, <<"G","B">>)
                       /\ query = QueryLondon => r = QueryLondonGBSpaced)

\* C3, amended: after an empty direct geocode of a query whose last part is
\* "UK", the second geocode call has the parts of the query, each trimmed,
\* joined by "," without a blank, the last part replaced by "GB": "London,GB"
\* for "London, UK".
C3_SynonymRewrite ==
    \A i \in EmptyDirect :
        LET query == Strip(location_queries[i])
        IN  LastPartIs(query, <<"U","K">>)
                => RetriedWith(i, LAMBDA r :
                       /\ SplitComma(r) = TrimmedPartsWithLast(query, <<"G","B">>)
                       /\ query = QueryLondon => r = QueryLondonGB)

\* "London, UK" was geocoded directly without a result and then as "London,GB"
C3_Witness ==
    /\ Len(calls) >= 2
    /\ IsGeocode(calls[1]) /\ calls[1].query = QueryLondon
    /\ calls[1].reply = "empty"
    /\ IsGeocode(calls[2]) /\ calls[2].query = QueryLondonGB
    /\ calls[2].idx = calls[1].idx

(***************************************************************************)
(* C4.  When a result is a Success.                                        *)
(***************************************************************************)
\* C4 as stated: the result of a query is a Success if and only if the
\* temperature, the humidity, the wind speed and the city name were all there
\* after enrichment.
C4_Original ==
    JustResolved => (~HasError(ThisResult) <=> AllFourPresent(weather_data))

\* C4, amended: the result of a query is a Success if and only if the
\* temperature, the humidity, the wind speed and a non-empty city name were
\* all there after enrichment and shaping the result raised no unexpected
\* error: a field that is there with a value of the wrong type, or a malformed
\* main, wind or weather entry, makes the result a Failure.
C4_SuccessIffCompleteAndWellFormed ==
    JustResolved =>
        (~HasError(ThisResult)
            <=> (AllFourPresent(weather_data) /\ WellFormed(weather_data)))

\* a Success whose temperature, humidity and wind speed are all zero: there,
\* though falsy
C4_Witness ==
    /\ JustResolved
    /\ ~HasError(ThisResult)
    /\ weather_resp = PayloadZeros
    /\ ThisResult.humidity = Num(0)

(***************************************************************************)
(* C5.  A failure of one query stays with that query.                      *)
(***************************************************************************)
ErrorTexts == {FetchFailedText, IncompleteText, InternalErrorText}

\* C5: a query that was not found, met a provider error, got incomplete data or
\* raised an unexpected error has a Failure as its result, with its trimmed
\* input and one of the three error messages; the handler never answers with
\* an error status once the loop has started, and when it is done every
\* non-blank position of the batch has had its provider call and its result.
C5_FaultIsolation ==
    /\ JustResolved
          /\ (weather_data = None
                \/ ~AllFourPresent(weather_data) \/ ~WellFormed(weather_data))
          => /\ HasError(ThisResult)
             /\ ThisResult.original_input = Strip(location_queries[idx - 1])
             /\ ThisResult.error.text \in ErrorTexts
             /\ ThisResult.error.text = FetchFailedText
                   <=> weather_data = None
             /\ ThisResult.error.text = FetchFailedText
                   => ThisResult.error.args = <<ThisResult.original_input>>
    /\ (pc = "done" /\ api_key_set /\ location_queries # <<>>)
          => /\ response.status = 200
             /\ Len(response.weather_data)
                    = Len(TrimmedNonEmpty(location_queries))
             /\ \A i \in 1..Len(location_queries) :
                    Strip(location_queries[i]) # <<>>
                        => /\ CallsAt(i) # <<>>
                           /\ Rank(i) \in 1..Len(response.weather_data)

\* a batch whose first query raised an unexpected error (a temperature that is
\* no number) and whose second query was still resolved, to a Success
C5_Witness ==
    /\ pc = "done"
    /\ Len(location_queries) = 2
    /\ Len(all_results_data) = 2
    /\ HasError(all_results_data[1])
    /\ all_results_data[1].error.text = InternalErrorText
    /\ ~HasError(all_results_data[2])

(***************************************************************************)
(* C6.  The rewrite of the US-state fallback.                              *)
(***************************************************************************)
\* C6: after an empty direct geocode of a query of two parts or more whose
\* last part (trimmed, upper-cased, without periods) is one of the 51 codes,
\* the second geocode call has the trimmed query followed by ", US".
C6_StateRewrite ==
    /\ Cardinality(US_STATE_ABBREVS) = 51
    /\ \A i \in EmptyDirect :
          LET query == Strip(location_queries[i])
          IN  (\E code \in US_STATE_ABBREVS : LastPartIs(query, code))
                  => RetriedWith(i, LAMBDA r : r = query \o UsSuffix)

\* "Boston, MA" was geocoded directly without a result, then as
\* "Boston, MA, US"
C6_Witness ==
    /\ Len(calls) >= 2
    /\ IsGeocode(calls[1]) /\ calls[1].query = Strip(QueryBoston)
    /\ calls[1].reply = "empty"
    /\ IsGeocode(calls[2])
    /\ calls[2].query = Strip(QueryBoston) \o UsSuffix
    /\ calls[2].idx = calls[1].idx

(***************************************************************************)
(* C7.  A query without a comma has no fallback.                           *)
(***************************************************************************)
HasComma(query) == \E j \in 1..Len(query) : query[j] = ","

\* C7: a query without a comma whose direct geocode returned an empty result
\* has had that one geocode call and no other call, and its result is the
\* not-found Failure; no fallback is in preparation for it.
C7_NoCommaNoFallback ==
    \A i \in EmptyDirect :
        ~HasComma(Strip(location_queries[i]))
            => /\ Len(CallsAt(i)) = 1
               /\ i \in HandledQueries
               /\ ResultAt(i) = FetchFailure(Strip(location_queries[i]))

\* "uK" alone, without a comma, was geocoded once, without a result
C7_Witness ==
    /\ JustResolved
    /\ original_input = <<"u", "K">>
    /\ Len(calls) = 1
    /\ calls[1].reply = "empty"
    /\ HasError(ThisResult)

(***************************************************************************)
(* C8.  A provider error inside a fallback.                                *)
(***************************************************************************)
\* a call of the current query after its direct geocode, that is a call of a
\* fallback, raised a provider error
FallbackCallFailed ==
    /\ ThisCalls[1].reply = "empty"
    /\ \E k \in 2..Len(ThisCalls) : ThisCalls[k].reply = "error"

\* C8: when a geocode call or a weather fetch of a fallback raised a provider
\* error, the guard of fallback (B) was still evaluated after the guard of
\* fallback (A), the handler went on without an error response, and the query,
\* no attempt of which succeeded, has the not-found Failure naming its input.
C8_FallbackErrorSwallowed ==
    (JustResolved /\ FallbackCallFailed)
        => /\ fallback_checks = <<"A", "B">>
           /\ response = None \/ response.status = 200
           /\ ThisCalls[Len(ThisCalls)].reply # "payload"
                 => /\ weather_data = None
                    /\ ThisResult = FetchFailure(Strip(location_queries[idx - 1]))

\* the weather fetch of fallback (A) raised a provider error: guard (B) was
\* evaluated and the query ended as not found
C8_Witness ==
    /\ JustResolved
    /\ Len(ThisCalls) = 3
    /\ ThisCalls[1].reply = "empty"
    /\ ThisCalls[2].reply = "match"
    /\ IsWeather(ThisCalls[3]) /\ ThisCalls[3].reply = "error"
    /\ SynonymApplies(original_input)
    /\ fallback_checks = <<"A", "B">>
    /\ ThisResult = FetchFailure(original_input)

CarriesLocation(result) ==
    /\ {"city_name", "country_code", "state"} \subseteq DOMAIN result
    /\ result.city_name
           = (IF Present(geo_data.name) /\ geo_data.name # Str("")
              THEN geo_data.name ELSE Str("Unknown"))
    /\ result.country_code = Get(geo_data.country)
    /\ result.state = Get(geo_data.state)

\* an observation was returned for the query and one of the four required
\* fields is missing from it
ObservationIncomplete ==
    JustResolved /\ weather_data # None /\ ~AllFourPresent(weather_data)

\* C10 as stated: when an observation was returned and the temperature, the
\* humidity, the wind speed or the city name is missing from it, the result is
\* a Failure tagged as incomplete data, with the input and the location
\* fields of the match.
C10_Original ==
    ObservationIncomplete
        => /\ HasError(ThisResult)
           /\ ThisResult.error.text = IncompleteText
           /\ ThisResult.original_input = Strip(location_queries[idx - 1])
           /\ CarriesLocation(ThisResult)

\* C10, amended: when an observation was returned and one of the four fields
\* is missing from it, the result is a Failure with the input, never a
\* Success; it is tagged as incomplete data and carries the city name of the
\* match ("Unknown" when there is none), its country code and its state,
\* unless the payload's main, wind or first weather entry is malformed: the
\* result is then the internal-error Failure, without location fields.
C10_IncompleteIsFailure ==
    ObservationIncomplete
        => /\ HasError(ThisResult)
           /\ ThisResult.original_input = Strip(location_queries[idx - 1])
           /\ IF ContainersWellFormed(weather_data)
              THEN /\ ThisResult.error.text = IncompleteText
                   /\ CarriesLocation(ThisResult)
              ELSE ThisResult = InternalFailure(ThisResult.original_input)

\* a payload with humidity and without wind speed gave a Failure tagged as
\* incomplete data that carries the city, country and state of the match
C10_Witness ==
    /\ JustResolved
    /\ weather_resp = PayloadNoWind
    /\ geo_data = MatchBoston
    /\ HasError(ThisResult)
    /\ ThisResult.error.text = IncompleteText
    /\ ThisResult.city_name = Str("Boston")
    /\ ThisResult.country_code = Str("US")
    /\ ThisResult.state = Str("Massachusetts")

(***************************************************************************)
(* C11.  What the Record Store holds.                                      *)
(***************************************************************************)
\* the rows committed by a sequence of calls of store_weather_data
RECURSIVE Committed(_)
Committed(sc) ==
    IF sc = <<>> THEN <<>>
    ELSE (IF Head(sc).returned THEN RowsOf(Head(sc).records) ELSE <<>>)
             \o Committed(Tail(sc))

\* a row that has the eight columns of a Success: a city name and numbers
SuccessRow(row) ==
    /\ DOMAIN row = {"city", "temperature_kelvin", "temperature_celsius",
                     "temperature_fahrenheit", "humidity", "wind_speed",
                     "weather_description", "comfort_index"}
    /\ row.city.tag = "str" /\ row.city # Str("")
    /\ \A col \in {"temperature_kelvin", "temperature_celsius",
                    "temperature_fahrenheit", "humidity", "wind_speed",
                    "comfort_index"} : row[col].tag = "num"

\* C11: after any sequence of requests, the rows of weather_records are the
\* rows of the Success records handed to the calls of store_weather_data that
\* committed, every one a row of a Success; no record handed to the store is a
\* Failure, and the records handed over for a batch are the Successes of the
\* results returned for that batch.
C11_OnlySuccessPersisted ==
    /\ \A k \in 1..Len(db) : SuccessRow(db[k])
    /\ db = Committed(store_calls)
    /\ \A k \in 1..Len(store_calls) :
          \A j \in 1..Len(store_calls[k].records) :
              ~HasError(store_calls[k].records[j])
    /\ (pc = "done" /\ response.status = 200)
          => LET successes == SelectSeq(response.weather_data, IsValidRecord)
             IN  successes # <<>>
                     => /\ store_calls # <<>>
                        /\ store_calls[Len(store_calls)].records = successes

\* the second request's query failed: the table still holds the one row of
\* the first request and nothing of the failure
C11_Witness ==
    /\ batches = 2
    /\ pc = "done"
    /\ response.status = 200
    /\ Len(response.weather_data) = 1
    /\ HasError(response.weather_data[1])
    /\ Len(db) = 1
    /\ Len(store_calls) = 1

(***************************************************************************)
(* C12.  One batch is stored in one transaction.                           *)
(***************************************************************************)
\* C12: a step that calls store_weather_data hands it the Success records of
\* the batch, and the table gains either the rows of all of them, in the
\* order of the results, when the call returned True, or nothing when an
\* error occurred at an INSERT or at the commit; no other step changes the
\* table.
C12_AtomicAppend ==
    [][LET successes == SelectSeq(all_results_data, IsValidRecord)
       IN  IF store_calls' # store_calls
           THEN /\ Len(store_calls') = Len(store_calls) + 1
                /\ SubSeq(store_calls', 1, Len(store_calls)) = store_calls
                /\ store_calls'[Len(store_calls')].records = successes
                /\ IF store_calls'[Len(store_calls')].returned
                   THEN db' = db \o [i \in 1..Len(successes) |->
                                         DbRow(successes[i])]
                   ELSE db' = db
           ELSE db' = db]_vars

\* the store call of a batch with two Success records met an error: none of
\* the two rows is in the table
C12_Witness ==
    /\ pc = "done"
    /\ Len(store_calls) = 1
    /\ Len(store_calls[1].records) = 2
    /\ ~store_calls[1].returned
    /\ db = <<>>

(***************************************************************************)
(* C13.  A missing API key.                                                *)
(***************************************************************************)
ConfigurationError ==
    [status |-> 500,
     error |-> "Server configuration error (API key missing)."]

\* C13: without an API key no provider call is issued, no result is produced
\* and nothing is handed to the store or written to the table, and a
\* non-empty batch is answered by the 500 configuration error; with an API
\* key a non-empty batch is always answered with status 200 and one result
\* for each non-blank query, whatever the provider did.
C13_MissingKeyAbortsBatch ==
    /\ ~api_key_set
          => /\ calls = <<>>
             /\ all_results_data = <<>>
             /\ store_calls = <<>>
             /\ db = <<>>
             /\ (pc = "done" /\ location_queries # <<>>)
                    => response = ConfigurationError
    /\ (api_key_set /\ pc = "done" /\ location_queries # <<>>)
          => /\ response.status = 200
             /\ Len(response.weather_data)
                    = Len(TrimmedNonEmpty(location_queries))

\* a batch of two queries was answered by the configuration error
C13_Witness ==
    /\ pc = "done"
    /\ ~api_key_set
    /\ Len(location_queries) = 2
    /\ Strip(location_queries[1]) # <<>>
    /\ response = ConfigurationError

(***************************************************************************)
(* C14.  calculate_comfort_index against the reference formula.            *)
(***************************************************************************)
Clamp(x, low, high) == Max(low, Min(x, high))

\* 0.5 * clamp(tempC, 0, 40) / 40 + 0.3 * (1 - humidity / 100)
\*   + 0.2 * (1 - clamp(windSpeed, 0, 10) / 10), in units of 1/80000
ReferenceComfort(tempC, humidity, windSpeed) ==
    10 * Clamp(tempC, 0, 4000)
        + 240 * (100 - humidity)
        + 160 * (100 - Clamp(windSpeed, 0, 100))

AnyArgumentNone ==
    None \in {comfort_args.temp_celsius, comfort_args.humidity,
              comfort_args.wind_speed}

\* C14 as stated: calculate_comfort_index returns None if and only if an
\* argument is None, and otherwise the value of the reference formula, wind
\* speed clamped at 0 and at 10, which lies between 0 and 1.
C14_Original ==
    comfort_result # NotCalled
        => /\ comfort_result = None <=> AnyArgumentNone
           /\ ~AnyArgumentNone
                 => /\ comfort_result
                          = Num(ReferenceComfort(comfort_args.temp_celsius.v,
                                                 comfort_args.humidity.v,
                                                 comfort_args.wind_speed.v))
                    /\ comfort_result.v \in 0..80000

\* C14, what the code does: None if and only if an argument is None; the
\* value of the reference formula whenever the wind speed is not negative;
\* and for a negative wind speed a value above that of the reference
\* formula, by 0.02 for each unit of wind speed below 0.
C14_AgreesUnlessWindNegative ==
    comfort_result # NotCalled
        => /\ comfort_result = None <=> AnyArgumentNone
           /\ ~AnyArgumentNone
                 => LET reference ==
                            ReferenceComfort(comfort_args.temp_celsius.v,
                                             comfort_args.humidity.v,
                                             comfort_args.wind_speed.v)
                        wind == comfort_args.wind_speed.v
                    IN  IF wind >= 0
                        THEN /\ comfort_result = Num(reference)
                             /\ comfort_result.v \in 0..80000
                        ELSE comfort_result = Num(reference - 160 * wind)

\* calculate_comfort_index(40, 0, -1) returned 1.02, above 1
C14_Witness ==
    /\ comfort_args = [temp_celsius |-> Num(4000), humidity |-> Num(0),
                       wind_speed |-> Num(-10)]
    /\ comfort_result = Num(81600)

(***************************************************************************)
(* C15.  Fallbacks come only after an empty direct result.                 *)
(***************************************************************************)
\* C15: the first provider call of a query is the geocode of the trimmed
\* query as it is; when it returned a match, the only call that may follow
\* for that query is the weather fetch for that match, and when that fetch
\* failed, or the match could not be used, the query is a Failure; a second
\* geocode call is issued for a query only after its direct geocode returned
\* an empty result.
C15_FallbackOnlyAfterEmpty ==
    \A i \in 1..Len(location_queries) :
        LET cs == CallsAt(i)
            query == Strip(location_queries[i])
        IN  cs # <<>>
              => /\ IsGeocode(cs[1]) /\ cs[1].query = query
                 /\ cs[1].reply = "match"
                       => /\ Len(cs) <= 2
                          /\ \A k \in 2..Len(cs) : IsWeather(cs[k])
                          /\ (/\ i \in HandledQueries
                              /\ Len(cs) = 1 \/ cs[2].reply = "error")
                                => ResultAt(i) = FetchFailure(query)
                 /\ (\E k \in 2..Len(cs) : IsGeocode(cs[k]))
                       => cs[1].reply = "empty"

\* "Boston, MA", for which the state fallback applies, got a match from its
\* direct geocode; the weather fetch failed and the query ended as a Failure
\* after these two calls
C15_Witness ==
    /\ JustResolved
    /\ original_input = Strip(QueryBoston)
    /\ StateApplies(original_input)
    /\ Len(ThisCalls) = 2
    /\ ThisCalls[1].reply = "match"
    /\ IsWeather(ThisCalls[2]) /\ ThisCalls[2].reply = "error"
    /\ ThisResult = FetchFailure(original_input)

(***************************************************************************)
(* C16.  At most one fallback, and one query after the other.              *)
(***************************************************************************)
Count(cs, Kind(_)) == Len(SelectSeq(cs, Kind))

\* C16: no US state code is a key of the synonym table, so no query
\* qualifies for both fallbacks; for every query at most two geocode calls
\* and at most one weather call are issued, a second geocode being that of
\* the one fallback the query qualifies for; and the calls are issued query
\* by query: none for a position before the loop is at it, none for an
\* earlier position after a call for a later one.
C16_AtMostOneFallback ==
    /\ US_STATE_ABBREVS \cap DOMAIN COUNTRY_SYNONYMS = {}
    /\ \A i \in 1..Len(location_queries) :
          LET cs == CallsAt(i)
              query == Strip(location_queries[i])
          IN  /\ ~(SynonymApplies(query) /\ StateApplies(query))
              /\ Count(cs, IsGeocode) <= 2
              /\ Count(cs, IsWeather) <= 1
              /\ \A k \in 2..Len(cs) :
                    IsGeocode(cs[k])
                        => \/ SynonymApplies(query)
                                /\ cs[k].query = SynonymQuery(query)
                           \/ StateApplies(query)
                                /\ cs[k].query = StateQuery(query)
    /\ \A k \in 1..Len(calls) :
          /\ calls[k].idx \in 1..Len(location_queries)
          /\ calls[k].idx <= idx
          /\ pc \in {"loop", "done"} => calls[k].idx < idx
          /\ \A l \in k..Len(calls) : calls[k].idx <= calls[l].idx

\* the synonym fallback of "London, UK" found nothing either: the query ended
\* after two geocode calls, and the guard of the state fallback, evaluated,
\* did not apply
C16_Witness ==
    /\ JustResolved
    /\ original_input = QueryLondon
    /\ Len(ThisCalls) = 2
    /\ IsGeocode(ThisCalls[2])
    /\ ThisCalls[2].reply = "empty"
    /\ fallback_checks = <<"A", "B">>
    /\ HasError(ThisResult)

(***************************************************************************)
(* C17.  The store call and the response.                                  *)
(***************************************************************************)
\* the step is the one that ends the batch loop and returns the response
EndsBatch == pc = "loop" /\ pc' = "done"

\* C17: store_weather_data is called at most once for a request; the step
\* that calls it is the one that returns the response, after the loop went
\* through every position, and it is called if and only if the batch has a
\* Success; whether or not a store call was made, and whatever it returned,
\* the response is status 200 with the results of the loop, unchanged.
C17_StoreOnceResponseUnchanged ==
    /\ [](Len(store_calls) <= batches)
    /\ [][LET successes == SelectSeq(all_results_data, IsValidRecord)
          IN  /\ store_calls' # store_calls
                    => /\ EndsBatch
                       /\ Len(store_calls') = Len(store_calls) + 1
                       /\ store_calls'[Len(store_calls')].records = successes
              /\ EndsBatch
                    => /\ idx = Len(location_queries) + 1
                       /\ Len(all_results_data)
                              = Len(TrimmedNonEmpty(location_queries))
                       /\ store_calls' # store_calls <=> successes # <<>>
                       /\ all_results_data' = all_results_data
                       /\ response' = [status |-> 200,
                                       weather_data |-> all_results_data]]_vars

\* a batch with a Failure and a Success: the store call failed and the
\* response has both results, the Success still a Success
C17_Witness ==
    /\ pc = "done"
    /\ Len(store_calls) = 1
    /\ ~store_calls[1].returned
    /\ db = <<>>
    /\ response.status = 200
    /\ Len(response.weather_data) = 2
    /\ HasError(response.weather_data[1])
    /\ ~HasError(response.weather_data[2])

====
